---- MODULE Spec2Model ----
(***************************************************************************)
(* Model of the cellular_logger polling engine: the Processor scheduler   *)
(* (loop, request, addLogEntry, flushLogs, Close), the telemetry and      *)
(* modem Message.Process operations and the contexts they wait on.        *)
(*                                                                         *)
(* One goroutine is modelled per worker (a call of Processor.Start) and   *)
(* per caller of Processor.Close.  A Go select takes any one of the cases *)
(* that are ready when the goroutine evaluates it.  Tickers, the request  *)
(* timer and the telemetry node belong to the environment: a ticker or a  *)
(* frame can be ready at any evaluation of a select, a closed context is  *)
(* ready at every one.                                                    *)
(***************************************************************************)
EXTENDS Integers, Sequences, FiniteSets, TLC

\* ------------------------------------------------------------------ bounds
MaxEntries == 2    \* requests made over a run (a tick starts only if it fits)
MaxBatch == 2      \* largest configured batch size (--buffer)
NSinks == 2        \* writers given to NewMultiWriter
MaxCalls == 2      \* calls made on a writer over a run
MaxLen == 2        \* entries in a batch handed to a writer
MaxHist == 3       \* entries over all histories when statistics are queried
MaxDuration == 2   \* longest response time of a request, in clock units

\* ----------------------------------------------------------- the universe
\* Message objects (pointers).  at1 and at2 are two distinct objects built
\* from the same command string, as parseMessages builds them for
\* --messages=at:+CSQ,at:+CSQ.
Objs == {"mav1", "at1", "at2"}

\* The message the client adds and removes while the processor runs.
Dynamic == {"at2"}

Workers == {"w1", "w2"}     \* goroutines running Processor.loop
Closers == {"c1", "c2"}     \* goroutines calling Processor.Close

NoWorker == "none"

Kind(o) == IF o = "mav1" THEN "mavlink" ELSE "at"

\* The identity key of the spec: numeric message ID / command string.
Identity(o) == IF o = "mav1" THEN <<"mavlink", "24">> ELSE <<"at", "+CSQ">>

GetType(o) == IF o = "mav1" THEN "mavlink-24" ELSE "at-+CSQ"

\* What Processor.Mavlink / Processor.AT may hold: nothing, or a Requester
\* of either concrete type (the fields are of interface type Requester).
Handles == {"nil", "mavlink", "at"}

\* Events of the telemetry node: a frame of the awaited message type, a
\* frame of another type, an event that is no frame.
EventKinds == {"match", "other", "nonframe"}

\* What the node delivers on Events(): frames, each with the ID and the
\* decoded message it carries, and events that are no frame.
Events ==
    {[kind |-> "frame", id |-> "24", msg |-> "frame"],
     [kind |-> "frame", id |-> "33", msg |-> "frame33"],
     [kind |-> "channel-open", id |-> "none", msg |-> "none"]}

ErrNone      == ""
ErrMismatch  == "errors interface mismatch"
ErrCancelled == "context cancelled"
ErrTimeout   == "request timeout"
ErrSend      == "write failed"
ErrAT        == "error while sending AT commands"

NoEntry == [obj |-> "none", Index |-> 0, Success |-> FALSE, Data |-> "none", Error |-> ErrNone]

VARIABLES
    \* Processor
    messages,       \* hashset.Set[Message]: a set of message objects
    Mavlink, AT,    \* backend handles
    logBatchSize,
    logBuffer,
    logMux,         \* holder of the buffer lock, or NoWorker
    ctxDone,        \* the processor's context (ctx2) is cancelled
    rootDone,       \* the context given to NewProcessor and NewMessage is cancelled
    once,           \* sync.Once of Close: "new", "running", "done"
    wg,             \* sync.WaitGroup counter
    \* per worker
    pc, todo, ret, entry, timedOut,
    skipped,        \* the wait in progress has passed over an event
    snap,           \* request(): the snapshot returned by getMessages
    polled,         \* request(): the entries handed to addLogEntry in this tick
    tickErr,        \* request(): err is non-nil
    \* per message object
    index, history,
    \* telemetry node
    eventsClosed,
    \* Close callers
    cpc, closeResult, closeErr,
    tickAtClose,    \* workers whose request tick was in progress when Close cancelled
    \* process
    panicked,
    \* observation (what the Writer and the callers have seen)
    written, produced, calls, closeCount, cancelCount, requests,
    inflightAtClose, inflightAtCancel,
    sent,           \* per message: protocol operations made on its behalf
    writerBroken,   \* the Writer's medium fails: Write returns an error
    writeErrs       \* observation: per call of Writer.Write, whether it failed

VARIABLES
    \* MultiWriter over its configured sinks
    mwOp,           \* the call in progress: "none", "write", "close"
    mwNext,         \* position of the range loop over w.writers
    mwBatch,        \* the entries argument of the Write in progress
    mwErr,          \* the err variable of the call in progress
    mwResult,       \* what the last call returned ("pending" before any)
    mwLog,          \* observation: the calls made on the sinks, in order
    mwFailed,       \* observation: the sinks that failed in this call
    mwCalls         \* observation: calls of MultiWriter.Write / Close so far

VARIABLES
    \* CSVWriter
    csvHeader,      \* w.header
    csvBroken,      \* the csv.Writer holds a write error (it keeps it for good)
    csvOut,         \* the rows that reached the file
    csvResult,      \* what the last Write returned ("pending" before any)
    csvCalls        \* observation: calls of CSVWriter.Write so far

VARIABLES
    \* BinaryWriter
    binOut,         \* the bytes of the file
    binResult,      \* what the last Write returned ("pending" before any)
    binCalls,       \* observation: calls of BinaryWriter.Write so far
    binFailed,      \* observation: a Write has returned an error
    binEntries      \* observation: the entries written in full, in order

VARIABLES
    \* a statistics query (GetSuccessRate / GetAverageResponseTime)
    qpc,            \* "idle", "values" (inside getMessages), "scan", "done"
    qtype,          \* its messageType argument
    qset,           \* the values getMessages has collected / returned
    qtodo,          \* messages of the range loop still to come
    qread,          \* messages whose GetAllEntries the query has called
    qseen,          \* per message: the entries that call returned
    adding,         \* per message: the entry Message.add is appending, if any
    muxOp,          \* the AddMessage / RemoveMessage that holds p.mux, if any
    \* observation
    qsets,          \* the values p.messages had while getMessages ran
    qbase,          \* the length of each history when the query began
    setObs          \* per message: the last AddMessage / RemoveMessage made
                    \* lock by lock that returned, the length of the
                    \* message's history when it did, and whether a
                    \* RemoveMessage of it has ever returned

queryVars  == <<qpc, qtype, qset, qtodo, qread, qseen, adding, muxOp, qsets, qbase, setObs>>

mwVars     == <<mwOp, mwNext, mwBatch, mwErr, mwResult, mwLog, mwFailed, mwCalls>>
csvVars    == <<csvHeader, csvBroken, csvOut, csvResult, csvCalls>>
binVars    == <<binOut, binResult, binCalls, binFailed, binEntries>>
sinkVars   == <<mwVars, csvVars, binVars>>

procVars   == <<messages, Mavlink, AT, logBatchSize>>
bufVars    == <<logBuffer, logMux, written, writerBroken, writeErrs>>
ctxVars    == <<ctxDone, rootDone, inflightAtClose, inflightAtCancel>>
closeVars  == <<once, cpc, closeResult, closeErr, closeCount, cancelCount, tickAtClose>>
tickVars   == <<snap, polled, tickErr>>
workVars   == <<pc, todo, ret, entry, timedOut, skipped, snap, polled, tickErr>>
msgVars    == <<index, history, produced>>
nodeVars   == <<eventsClosed>>

engineVars == <<messages, Mavlink, AT, logBatchSize, logBuffer, logMux, ctxDone, rootDone,
          once, wg, pc, todo, ret, entry, timedOut, skipped, snap, polled, tickErr,
          index, history, eventsClosed, cpc, closeResult, closeErr, tickAtClose, panicked,
          written, produced, calls, closeCount, cancelCount, requests,
          inflightAtClose, inflightAtCancel, sent, writerBroken, writeErrs>>

vars == <<engineVars, sinkVars, queryVars>>

\* ---------------------------------------------------------------- helpers
RECURSIVE Flatten(_)
\* The batches handed to Writer.Write, concatenated in call order.
Flatten(bs) == IF bs = <<>> THEN <<>> ELSE Head(bs) \o Flatten(Tail(bs))

\* The Requester a message's Request dispatches to (Message.Request).
HandleOf(o) == IF Kind(o) = "mavlink" THEN Mavlink ELSE AT

\* A size test that flushes one entry late.
ShouldFlushStrict(n) == n > logBatchSize
\* addLogEntry's size test: len(p.logBuffer) >= p.logBatchSize.
ShouldFlush(n) == n >= logBatchSize

\* A flush that leaves the written entries in the buffer.
KeepBuffer(buf) == buf
\* flushLogsUnsafe's reset of the buffer after Writer.Write returned.
ResetBuffer(buf) == <<>>

\* A flush that keeps the batch for another try when the write failed.
RetryOnError(buf, failed) == IF failed THEN buf ELSE ResetBuffer(buf)
\* flushLogsUnsafe after Writer.Write: the error is printed, and the
\* buffer is replaced whether there was one or not.
AfterWrite(buf, failed) == ResetBuffer(buf)

\* A flush that does not look at the length of the buffer.
NeverEmpty(buf) == FALSE
\* flushLogsUnsafe: if len(p.logBuffer) == 0 { return }.
BufferEmpty(buf) == Len(buf) = 0

\* A Close that runs its shutdown again once the first one is over.
OnceNotRunning(o) == o # "running"
\* sync.Once: Do runs its function only when no call has run it yet.
OnceFresh(o) == o = "new"

\* A Process that forgets to bump the index.
SameIndex(i) == i
\* The deferred m.index++ of Message.Process.
NextIndex(i) == i + 1

\* An aggregation that keeps only the error of the last request.
LastErr(err, e) == e
\* request(): err = multierr.Append(err, e) when e # nil.
AppendErr(err, e) == err \/ e

\* A wait that returns an error whichever Done() case ended it.
WaitErrorAlways(reason) == TRUE
\* Whether the wait of Message.Process returns a non-nil error: the case
\* <-m.ctx.Done() returns log, nil; the case <-ctx.Done() returns log,
\* ctx.Err().
WaitError(reason) == reason = ErrTimeout

\* A failure that leaves a payload in the entry.
FailedWithData(log, err) == [log EXCEPT !.Error = err, !.Data = "partial"]
\* Process on a failure: log.Error = <message>; Success and Data keep the
\* values the entry was built with (false, nil).
Failed(log, err) == [log EXCEPT !.Error = err]

\* Process on a success: log.Success = true; log.Data = <payload>.
Succeeded(log, data) == [log EXCEPT !.Success = TRUE, !.Data = data]

\* A Process that talks to the backend before it looks at its type.
ReachesProtocolUnchecked(o) == HandleOf(o) # "nil"
\* Process reaches WriteMessageAll / node.Command only when the type
\* assertion on the requester succeeded; it returns before them otherwise.
ReachesProtocol(o) == HandleOf(o) = Kind(o)

\* A range loop that looks at the live set again at every step.
RemainingLive(w) == todo[w] \cap messages

\* The range loop of request() runs over the slice getMessages returned:
\* what is still to come is what is left of that slice.
Remaining(w) == todo[w]

\* Where a worker continues after a flush: the next message of the tick,
\* the loop's select, or the return of loop().
After(w, r) == IF r = "next" THEN (IF Remaining(w) = {} THEN "select" ELSE "request")
               ELSE IF r = "select" THEN "select" ELSE "done"

\* The worker is inside request(): between the snapshot and the return
\* of the last addLogEntry.
InTick(w) == pc[w] \in {"request", "mselect", "append"} \/ (pc[w] = "writing" /\ ret[w] = "next")

\* A request that has sent its frame and has not yet recorded its result.
Waiting(w) == pc[w] = "mselect"

\* ------------------------------------------------------------------- Init
\* NewProcessor(ctx, interval, writer, buffsize, messages...) followed by
\* the assignment of the backend handles: both configured, the telemetry
\* handle left nil, or each field holding the other backend's requester.
InitMessages == {{"mav1", "at1"}, {"at1"}}
InitHandles == {<<"mavlink", "at">>, <<"nil", "at">>, <<"at", "mavlink">>}

TypeOK ==
    /\ messages \subseteq Objs
    /\ Mavlink \in Handles /\ AT \in Handles
    /\ logBatchSize \in 1..MaxBatch
    /\ logMux \in Workers \cup {NoWorker}
    /\ once \in {"new", "running", "done"}
    /\ wg \in 0..Cardinality(Workers)

\* NewMultiWriter(writers...): no call made yet.
MWInit ==
    /\ mwOp = "none"
    /\ mwNext = 1
    /\ mwBatch = <<>>
    /\ mwErr = <<>>
    /\ mwResult = "pending"
    /\ mwLog = <<>>
    /\ mwFailed = {}
    /\ mwCalls = 0

\* NewCSVWriter(filename): a fresh file, no header written.
CSVInit ==
    /\ csvHeader = FALSE
    /\ csvBroken = FALSE
    /\ csvOut = <<>>
    /\ csvResult = "pending"
    /\ csvCalls = 0

\* NewBinaryWriter(filename): a fresh, empty file.
BinInit ==
    /\ binOut = <<>>
    /\ binResult = "pending"
    /\ binCalls = 0
    /\ binFailed = FALSE
    /\ binEntries = <<>>

\* The writers as their constructors leave them.
SinksInit == MWInit /\ CSVInit /\ BinInit

\* No statistics query was made and no request is recording an entry.
QueryInit ==
    /\ qpc = "idle"
    /\ qtype = "none"
    /\ qset = {}
    /\ qtodo = {}
    /\ qread = {}
    /\ qseen = [o \in Objs |-> <<>>]
    /\ adding = [o \in Objs |-> <<>>]
    /\ muxOp = <<>>
    /\ qsets = {}
    /\ qbase = [o \in Objs |-> 0]
    /\ setObs = [o \in Objs |-> <<"none", 0, FALSE>>]

\* The fields NewProcessor sets whatever its arguments, and the rest of
\* the state before anything ran.
InitState ==
    /\ SinksInit
    /\ QueryInit
    /\ logBatchSize \in 1..MaxBatch
    /\ logBuffer = <<>>
    /\ logMux = NoWorker
    /\ ctxDone = FALSE
    /\ rootDone = FALSE
    /\ once = "new"
    /\ wg = 0
    /\ pc = [w \in Workers |-> "idle"]
    /\ todo = [w \in Workers |-> {}]
    /\ ret = [w \in Workers |-> "select"]
    /\ entry = [w \in Workers |-> NoEntry]
    /\ timedOut = [w \in Workers |-> FALSE]
    /\ skipped = [w \in Workers |-> FALSE]
    /\ snap = [w \in Workers |-> {}]
    /\ polled = [w \in Workers |-> <<>>]
    /\ tickErr = [w \in Workers |-> FALSE]
    /\ index = [o \in Objs |-> 0]
    /\ history = [o \in Objs |-> <<>>]
    /\ eventsClosed = FALSE
    /\ cpc = [c \in Closers |-> "idle"]
    /\ closeResult = [c \in Closers |-> "pending"]
    /\ closeErr = [c \in Closers |-> FALSE]
    /\ tickAtClose = {}
    /\ panicked = FALSE
    /\ written = <<>>
    /\ produced = <<>>
    /\ calls = [o \in Objs |-> 0]
    /\ sent = [o \in Objs |-> 0]
    /\ writerBroken = FALSE
    /\ writeErrs = <<>>
    /\ closeCount = 0
    /\ cancelCount = 0
    /\ requests = 0
    /\ inflightAtClose = {}
    /\ inflightAtCancel = {}

Init ==
    /\ messages \in InitMessages
    /\ \E h \in InitHandles : Mavlink = h[1] /\ AT = h[2]
    /\ InitState

\* ------------------------------------------------------- set of messages
\* A lock that excludes nobody.
Unlocked(holder, mode) == TRUE
\* sync.RWMutex: RLock ("r") gets the lock unless a writer holds it,
\* Lock ("w") only when nobody holds it.
LockFree(holder, mode) == IF mode = "r" THEN holder # "write" ELSE holder = "free"

\* A processor whose set is guarded by the lock of the buffer.
OneMux == IF logMux # NoWorker \/ muxOp # <<>> THEN "write"
          ELSE IF qpc = "values" THEN "read" ELSE "free"
\* Who holds p.mux between two steps: an AddMessage or RemoveMessage as
\* a writer from Lock to the deferred Unlock, the getMessages of a query
\* as a reader from RLock to the deferred RUnlock.
PMux == IF muxOp # <<>> THEN "write"
        ELSE IF qpc = "values" THEN "read" ELSE "free"

\* One lock for the histories of all messages.
AllMux(o) == IF \E x \in Objs : adding[x] # <<>> THEN "write" ELSE "free"
\* Who holds the mux of message o: Message.add holds it as a writer
\* while it appends.
MsgMux(o) == IF adding[o] = <<>> THEN "free" ELSE "write"

\* The set as it stands now, noted while getMessages runs.
NoteSet(S) == IF qpc = "values" THEN qsets \cup {S} ELSE qsets

\* A removal that leaves the set as it was.
RemoveNothing(S, o) == S

\* p.messages.Remove(m): the set without m, nothing else touched.
Remove(S, o) == S \ {o}

AddMessage(o) ==
    /\ ~panicked
    /\ LockFree(PMux, "w")
    /\ messages' = messages \cup {o}
    /\ qsets' = NoteSet(messages')
    /\ UNCHANGED <<sinkVars, qpc, qtype, qset, qtodo, qread, qseen, adding, muxOp, qbase, setObs, Mavlink, AT, logBatchSize, bufVars, ctxVars, closeVars, wg, workVars,
                   msgVars, calls, sent, nodeVars, panicked, requests>>

RemoveMessage(o) ==
    /\ ~panicked
    /\ LockFree(PMux, "w")
    /\ messages' = Remove(messages, o)
    /\ qsets' = NoteSet(messages')
    /\ UNCHANGED <<sinkVars, qpc, qtype, qset, qtodo, qread, qseen, adding, muxOp, qbase, setObs, Mavlink, AT, logBatchSize, bufVars, ctxVars, closeVars, wg, workVars,
                   msgVars, calls, sent, nodeVars, panicked, requests>>


\* AddMessage / RemoveMessage up to the point where p.mux.Lock() has
\* returned.
SetBegin(op, o) ==
    /\ ~panicked
    /\ LockFree(PMux, "w")
    /\ muxOp' = <<op, o>>
    /\ UNCHANGED <<sinkVars, qpc, qtype, qset, qtodo, qread, qseen, adding, qsets, qbase, setObs,
                   procVars, bufVars, ctxVars, closeVars, wg, workVars,
                   msgVars, calls, sent, nodeVars, panicked, requests>>

\* p.messages.Add(m) / p.messages.Remove(m) and the deferred Unlock.
SetEnd ==
    /\ ~panicked
    /\ muxOp # <<>>
    /\ messages' = IF muxOp[1] = "add" THEN messages \cup {muxOp[2]}
                    ELSE Remove(messages, muxOp[2])
    /\ qsets' = NoteSet(messages')
    /\ setObs' = [setObs EXCEPT ![muxOp[2]] =
                     <<muxOp[1], Len(history[muxOp[2]]), @[3] \/ muxOp[1] = "remove">>]
    /\ muxOp' = <<>>
    /\ UNCHANGED <<sinkVars, qpc, qtype, qset, qtodo, qread, qseen, adding, qbase,
                   Mavlink, AT, logBatchSize, bufVars, ctxVars, closeVars, wg, workVars,
                   msgVars, calls, sent, nodeVars, panicked, requests>>

\* ------------------------------------------------------------ the worker
\* Start: wg.Add(1); go p.loop().  loop() creates its two tickers and
\* enters the select.
StartWorker(w) ==
    /\ ~panicked
    /\ pc[w] = "idle"
    /\ wg' = wg + 1
    /\ pc' = [pc EXCEPT ![w] = "select"]
    /\ UNCHANGED <<sinkVars, queryVars, procVars, bufVars, ctxVars, closeVars, todo, ret, entry, timedOut, skipped,
                   tickVars, msgVars, calls, sent, nodeVars, panicked, requests>>

\* The first call of Start (cmd/log run calls it once).
Start ==
    /\ \A w \in Workers : pc[w] = "idle"
    /\ StartWorker("w1")

\* A further call of Start while or after another worker ran.
StartAgain ==
    /\ pc["w1"] # "idle"
    /\ StartWorker("w2")

\* loop: the select over ctx.Done(), ticker.C and logTicker.C, up to the
\* first statement of the case taken.  The request case takes the snapshot
\* of the tick (request: messages := p.getMessages()).
LoopSelect(w) ==
    /\ ~panicked
    /\ pc[w] = "select"
    /\ \/ \* case <-p.ctx.Done()
          /\ ctxDone
          /\ pc' = [pc EXCEPT ![w] = "flush"]
          /\ ret' = [ret EXCEPT ![w] = "exit"]
          /\ UNCHANGED <<todo, requests, tickVars, tickAtClose>>
       \/ \* case <-ticker.C
          /\ LockFree(PMux, "r")
          /\ requests + Cardinality(messages) <= MaxEntries
          /\ requests' = requests + Cardinality(messages)
          /\ todo' = [todo EXCEPT ![w] = messages]
          /\ snap' = [snap EXCEPT ![w] = messages]
          /\ polled' = [polled EXCEPT ![w] = <<>>]
          /\ tickErr' = [tickErr EXCEPT ![w] = FALSE]
          /\ tickAtClose' = tickAtClose \ {w}
          /\ pc' = [pc EXCEPT ![w] = IF messages = {} THEN "select" ELSE "request"]
          /\ UNCHANGED ret
       \/ \* case <-logTicker.C
          /\ pc' = [pc EXCEPT ![w] = "flush"]
          /\ ret' = [ret EXCEPT ![w] = "select"]
          /\ UNCHANGED <<todo, requests, tickVars, tickAtClose>>
    /\ UNCHANGED <<sinkVars, queryVars, procVars, bufVars, ctxVars, once, cpc, closeResult, closeErr, closeCount,
                   cancelCount, wg, entry, timedOut, skipped,
                   msgVars, calls, sent, nodeVars, panicked>>

\* The value m.index holds after the deferred m.index++.  The counter is
\* not guarded by m.mux: when another goroutine is inside Process of the
\* same message the two increments race and one of them can be lost.
IndexAfter(w, o) ==
    IF \E v \in Workers \ {w} : pc[v] = "mselect" /\ entry[v].obj = o
    THEN {NextIndex(index[o]), index[o]}
    ELSE {NextIndex(index[o])}

\* Message.Process records its result: m.add(log), the deferred m.index++,
\* and the return of the entry and of the error (failed: it is non-nil) to
\* request(), which aggregates the error.
Record(w, o, e, failed) ==
    /\ tickErr' = [tickErr EXCEPT ![w] = AppendErr(@, failed)]
    /\ UNCHANGED <<snap, polled>>
    /\ history' = [history EXCEPT ![o] = Append(@, e)]
    /\ \E i \in IndexAfter(w, o) : index' = [index EXCEPT ![o] = i]
    /\ produced' = Append(produced, e)
    /\ entry' = [entry EXCEPT ![w] = e]
    /\ pc' = [pc EXCEPT ![w] = "append"]

\* request: the next message of the snapshot, message.Request(p) up to the
\* point where Process has recorded its result or waits for a frame.
LoopRequest(w) ==
    /\ ~panicked
    /\ pc[w] = "request"
    /\ \E o \in Remaining(w) :
        /\ todo' = [todo EXCEPT ![w] = @ \ {o}]
        /\ calls' = [calls EXCEPT ![o] = IF HandleOf(o) = "nil" THEN @ ELSE @ + 1]
        /\ sent' = [sent EXCEPT ![o] = IF ReachesProtocol(o) THEN @ + 1 ELSE @]
        /\ LET log == [obj |-> o, Index |-> index[o], Success |-> FALSE,
                       Data |-> "none", Error |-> ErrNone]
           IN
           \/ \* processor.Mavlink / processor.AT is a nil interface: the
              \* method call dereferences nil and the process panics.
              /\ HandleOf(o) = "nil"
              /\ panicked' = TRUE
              /\ UNCHANGED <<pc, entry, msgVars, timedOut, skipped, tickVars>>
           \/ \* requester.(*Mavlink) / requester.(*AT) fails
              /\ HandleOf(o) \notin {"nil", Kind(o)}
              /\ Record(w, o, Failed(log, ErrMismatch), TRUE)
              /\ UNCHANGED <<panicked, timedOut, skipped>>
           \/ \* telemetry: WriteMessageAll fails
              /\ HandleOf(o) = "mavlink" /\ Kind(o) = "mavlink"
              /\ Record(w, o, Failed(log, ErrSend), TRUE)
              /\ UNCHANGED <<panicked, timedOut, skipped>>
           \/ \* telemetry: the request frame is sent, context.WithTimeout
              /\ HandleOf(o) = "mavlink" /\ Kind(o) = "mavlink"
              /\ entry' = [entry EXCEPT ![w] = log]
              /\ timedOut' = [timedOut EXCEPT ![w] = FALSE]
              /\ skipped' = [skipped EXCEPT ![w] = FALSE]
              /\ pc' = [pc EXCEPT ![w] = "mselect"]
              /\ UNCHANGED <<panicked, msgVars, tickVars>>
           \/ \* modem: node.Command fails
              /\ HandleOf(o) = "at" /\ Kind(o) = "at"
              /\ Record(w, o, Failed(log, ErrAT), TRUE)
              /\ UNCHANGED <<panicked, timedOut, skipped>>
           \/ \* modem: node.Command succeeds
              /\ HandleOf(o) = "at" /\ Kind(o) = "at"
              /\ Record(w, o, Succeeded(log, "response"), FALSE)
              /\ UNCHANGED <<panicked, timedOut, skipped>>
    /\ UNCHANGED <<sinkVars, queryVars, procVars, bufVars, ctxVars, closeVars, wg, ret, nodeVars, requests>>

\* A wait whose select has no timeout case.
TimeoutNever(w) == FALSE
\* ctx.Done() of context.WithTimeout(m.ctx, r.timeout) is closed once the
\* timeout elapsed or m.ctx was cancelled.
TimeoutReady(w) == timedOut[w] \/ rootDone

\* A wait that takes any frame for the answer.
AnyFrame(o, ev) == IF ev.kind = "frame" THEN "match" ELSE "nonframe"
\* What the wait for message o makes of an event: event.(*EventFrame),
\* then frm.Message().(T), T being the message type of o.
Classify(o, ev) ==
    IF ev.kind # "frame" THEN "nonframe"
    ELSE IF ev.id = Identity(o)[2] THEN "match" ELSE "other"

\* Telemetry Process: one evaluation of the select over m.ctx.Done(),
\* ctx.Done() of the timeout context (a child of m.ctx) and
\* r.node.Events(), with the body of the case taken.
MavSelect(w) ==
    /\ ~panicked
    /\ pc[w] = "mselect"
    /\ LET o == entry[w].obj
           log == entry[w]
       IN
       \/ \* case <-m.ctx.Done()
          /\ rootDone
          /\ Record(w, o, Failed(log, ErrCancelled), WaitError(ErrCancelled))
          /\ UNCHANGED skipped
       \/ \* case <-ctx.Done()
          /\ TimeoutReady(w)
          /\ Record(w, o, Failed(log, ErrTimeout), WaitError(ErrTimeout))
          /\ UNCHANGED skipped
       \/ \* case event, ok := <-r.node.Events() with !ok
          /\ eventsClosed
          /\ Record(w, o, Failed(log, ErrMismatch), TRUE)
          /\ UNCHANGED skipped
       \/ \* a frame of the awaited type
          /\ ~eventsClosed
          /\ \E ev \in Events :
                /\ Classify(o, ev) = "match"
                /\ Record(w, o, Succeeded(log, ev.msg), FALSE)
          /\ UNCHANGED skipped
       \/ \* a frame of another type, or an event that is no frame: continue
          /\ ~eventsClosed
          /\ \E ev \in Events : Classify(o, ev) \in EventKinds \ {"match"}
          /\ skipped' = [skipped EXCEPT ![w] = TRUE]
          /\ UNCHANGED <<pc, entry, msgVars, calls, sent, tickVars>>
    /\ UNCHANGED <<sinkVars, queryVars, procVars, bufVars, ctxVars, closeVars, wg, todo, ret, timedOut,
                   nodeVars, panicked, requests, calls, sent>>

\* The per-request timeout elapses.
TimeoutFire(w) ==
    /\ ~panicked
    /\ pc[w] = "mselect"
    /\ ~timedOut[w]
    /\ timedOut' = [timedOut EXCEPT ![w] = TRUE]
    /\ UNCHANGED <<sinkVars, queryVars, procVars, bufVars, ctxVars, closeVars, wg, pc, todo, ret, entry, skipped,
                   tickVars, msgVars, calls, sent, nodeVars, panicked, requests>>

\* The telemetry node closes its event channel.
CloseEvents ==
    /\ ~panicked
    /\ ~eventsClosed
    /\ Mavlink = "mavlink"
    /\ eventsClosed' = TRUE
    /\ UNCHANGED <<sinkVars, queryVars, procVars, bufVars, ctxVars, closeVars, wg, workVars, msgVars, calls, sent,
                   panicked, requests>>

\* addLogEntry: lock, append, flush when the batch size is reached.  When
\* it flushes, Writer.Write is invoked with the buffer and the lock stays
\* held until Write returns.
LoopAppend(w) ==
    /\ ~panicked
    /\ pc[w] = "append"
    /\ logMux = NoWorker
    /\ LET buf == Append(logBuffer, entry[w])
       IN /\ logBuffer' = buf
          /\ IF ShouldFlush(Len(buf))
             THEN /\ written' = Append(written, buf)
                  /\ logMux' = w
                  /\ ret' = [ret EXCEPT ![w] = "next"]
                  /\ pc' = [pc EXCEPT ![w] = "writing"]
             ELSE /\ pc' = [pc EXCEPT ![w] = After(w, "next")]
                  /\ UNCHANGED <<written, logMux, ret>>
    /\ entry' = [entry EXCEPT ![w] = NoEntry]
    /\ skipped' = [skipped EXCEPT ![w] = FALSE]
    /\ polled' = [polled EXCEPT ![w] = Append(@, entry[w])]
    /\ inflightAtClose' = inflightAtClose \ {w}
    /\ inflightAtCancel' = inflightAtCancel \ {w}
    /\ UNCHANGED <<sinkVars, queryVars, procVars, ctxDone, rootDone, closeVars, wg, todo, timedOut, snap, tickErr, writerBroken, writeErrs,
                   msgVars, calls, sent, nodeVars, panicked, requests>>

\* loop returns: the deferred ticker stops and wg.Done().
Exit(w, target) == IF target = "done" THEN wg' = wg - 1 ELSE UNCHANGED wg

\* flushLogs (timer or shutdown branch): lock, flushLogsUnsafe.  An empty
\* buffer returns at once.
LoopFlush(w) ==
    /\ ~panicked
    /\ pc[w] = "flush"
    /\ logMux = NoWorker
    /\ IF BufferEmpty(logBuffer)
       THEN /\ pc' = [pc EXCEPT ![w] = After(w, ret[w])]
            /\ Exit(w, After(w, ret[w]))
            /\ UNCHANGED <<written, logMux>>
       ELSE /\ written' = Append(written, logBuffer)
            /\ logMux' = w
            /\ pc' = [pc EXCEPT ![w] = "writing"]
            /\ UNCHANGED wg
    /\ UNCHANGED <<sinkVars, queryVars, procVars, logBuffer, writerBroken, writeErrs, ctxVars, closeVars, todo, ret, entry, timedOut, skipped, tickVars,
                   msgVars, calls, sent, nodeVars, panicked, requests>>

\* Writer.Write returns (its error is printed and dropped); the buffer is
\* replaced by a fresh one and the lock released.
LoopWriteReturn(w) ==
    /\ ~panicked
    /\ pc[w] = "writing"
    /\ logMux = w
    /\ logBuffer' = AfterWrite(logBuffer, writerBroken)
    /\ writeErrs' = Append(writeErrs, writerBroken)
    /\ logMux' = NoWorker
    /\ pc' = [pc EXCEPT ![w] = After(w, ret[w])]
    /\ Exit(w, After(w, ret[w]))
    /\ UNCHANGED <<sinkVars, queryVars, procVars, written, writerBroken, ctxVars, closeVars, todo, ret, entry, timedOut, skipped, tickVars,
                   msgVars, calls, sent, nodeVars, panicked, requests>>

\* ------------------------------------------------------------------ Close
\* Requests that are still waiting, their timeout not elapsed.
StillWaiting == {w \in Workers : pc[w] = "mselect" /\ ~timedOut[w]}

\* Close: once.Do.  The first caller runs the function, which begins with
\* p.cancel(); a caller that finds it running waits for it; a later caller
\* skips it and returns its own nil err.
CloseCall(c) ==
    /\ ~panicked
    /\ cpc[c] = "idle"
    /\ c = "c2" => cpc["c1"] # "idle"    \* the callers are interchangeable
    /\ IF OnceFresh(once)
       THEN /\ once' = "running"
            /\ ctxDone' = TRUE
            /\ cancelCount' = cancelCount + 1
            /\ inflightAtClose' = inflightAtClose \cup StillWaiting
            /\ tickAtClose' = {w \in Workers : InTick(w)}
            /\ cpc' = [cpc EXCEPT ![c] = "wait"]
            /\ UNCHANGED closeResult
       ELSE IF once = "running"
       THEN /\ cpc' = [cpc EXCEPT ![c] = "blocked"]
            /\ UNCHANGED <<once, ctxDone, cancelCount, inflightAtClose, closeResult, tickAtClose>>
       ELSE /\ cpc' = [cpc EXCEPT ![c] = "returned"]
            /\ closeResult' = [closeResult EXCEPT ![c] = "nil"]
            /\ UNCHANGED <<once, ctxDone, cancelCount, inflightAtClose, tickAtClose>>
    /\ UNCHANGED <<sinkVars, queryVars, procVars, bufVars, rootDone, inflightAtCancel, closeErr, closeCount, wg,
                   workVars, msgVars, calls, sent, nodeVars, panicked, requests>>

\* Close: p.wg.Wait() returns once no worker is counted, then
\* p.writer.Close(), which succeeds or fails; the function of once.Do
\* returns.
CloseWriter(c) ==
    /\ ~panicked
    /\ cpc[c] = "wait"
    /\ wg = 0
    /\ closeCount' = closeCount + 1
    /\ \E failed \in BOOLEAN : closeErr' = [closeErr EXCEPT ![c] = failed]
    /\ once' = "done"
    /\ cpc' = [cpc EXCEPT ![c] = "ret"]
    /\ UNCHANGED <<sinkVars, queryVars, procVars, bufVars, ctxVars, closeResult, cancelCount, tickAtClose, wg, workVars,
                   msgVars, calls, sent, nodeVars, panicked, requests>>

\* Close returns: the wrapped error when its own err is set, nil otherwise.
CloseReturn(c) ==
    /\ ~panicked
    /\ \/ cpc[c] = "ret"
       \/ cpc[c] = "blocked" /\ once = "done"
    /\ closeResult' = [closeResult EXCEPT ![c] = IF closeErr[c] THEN "error" ELSE "nil"]
    /\ cpc' = [cpc EXCEPT ![c] = "returned"]
    /\ UNCHANGED <<sinkVars, queryVars, procVars, bufVars, ctxVars, once, closeErr, closeCount, cancelCount,
                   tickAtClose, wg,
                   workVars, msgVars, calls, sent, nodeVars, panicked, requests>>

\* The owner of the context given to NewProcessor and to NewMessage
\* cancels it (cmd/log run: defer cancel()).  The processor's context and
\* every timeout context are its children and are cancelled with it.
RootCancel ==
    /\ ~panicked
    /\ ~rootDone
    /\ rootDone' = TRUE
    /\ ctxDone' = TRUE
    /\ inflightAtCancel' = inflightAtCancel \cup StillWaiting
    /\ UNCHANGED <<sinkVars, queryVars, procVars, bufVars, inflightAtClose, closeVars, wg, workVars,
                   msgVars, calls, sent, nodeVars, panicked, requests>>

\* ------------------------------------------------------- specifications
Environment ==
    \/ \E o \in Dynamic : AddMessage(o)
    \/ \E o \in Dynamic : RemoveMessage(o)
    \/ \E w \in Workers : TimeoutFire(w)
    \/ CloseEvents
    \/ RootCancel

Worker ==
    \/ \E w \in Workers : LoopSelect(w)
    \/ \E w \in Workers : LoopRequest(w)
    \/ \E w \in Workers : MavSelect(w)
    \/ \E w \in Workers : LoopAppend(w)
    \/ \E w \in Workers : LoopFlush(w)
    \/ \E w \in Workers : LoopWriteReturn(w)

Closing ==
    \/ \E c \in Closers : CloseCall(c)
    \/ \E c \in Closers : CloseWriter(c)
    \/ \E c \in Closers : CloseReturn(c)

\* The processor with one worker: Start is called once, at any time.
Next == Start \/ Environment \/ Worker \/ Closing

Spec == Init /\ [][Next]_vars

\* The processor of one telemetry message with both backends configured,
\* on which Start is called a second time.
InitMulti ==
    /\ messages = {"mav1"}
    /\ Mavlink = "mavlink" /\ AT = "at"
    /\ InitState

NextMulti ==
    \/ Start
    \/ StartAgain
    \/ \E w \in Workers : TimeoutFire(w)
    \/ Worker
    \/ Closing

SpecMulti == InitMulti /\ [][NextMulti]_vars


NextLocks ==
    \/ Start
    \/ Worker
    \/ \E o \in Dynamic : SetBegin("add", o)
    \/ \E o \in Dynamic : SetBegin("remove", o)
    \/ SetEnd

\* The worker and a client that changes the set, lock by lock.
SpecLocks == Init /\ [][NextLocks]_vars


\* The evaluation of the wait's select that takes one of the two Done()
\* cases.
MavExpire(w) == MavSelect(w) /\ entry'[w].Error \in {ErrCancelled, ErrTimeout}

NextWait ==
    \/ Start
    \/ Worker
    \/ \E w \in Workers : TimeoutFire(w)
    \/ RootCancel
    \/ CloseEvents

\* The worker polling one telemetry message.  The request timer elapses
\* in the end, and a select that finds a Done() case ready at every
\* evaluation ends up taking one: Go chooses among the ready cases at
\* random, however many events are ready as well.
SpecWait ==
    /\ InitMulti
    /\ [][NextWait]_vars
    /\ \A w \in Workers : WF_vars(TimeoutFire(w)) /\ WF_vars(MavExpire(w))

\* ============================================================= statistics
\* The message types a query can name.
Types == {GetType(o) : o \in Objs}

\* A count that takes every entry for a success.
AnyEntry(e) == TRUE
\* GetSuccessRate: if entry.Success { successful++ }.
IsSuccessful(e) == e.Success

\* The inner loop over the entries of one message.
SuccessfulIn(h) == Cardinality({i \in 1..Len(h) : IsSuccessful(h[i])})

RECURSIVE CountEntries(_, _)
\* The loop of GetSuccessRate over the snapshot of the set: total and
\* successful, over the messages whose GetType() is messageType.
CountEntries(S, messageType) ==
    IF S = {} THEN [total |-> 0, successful |-> 0]
    ELSE LET o == CHOOSE x \in S : TRUE
             rest == CountEntries(S \ {o}, messageType)
         IN IF GetType(o) = messageType
            THEN [total |-> rest.total + Len(history[o]),
                  successful |-> rest.successful + SuccessfulIn(history[o])]
            ELSE rest

\* A rate is kept as the fraction <<numerator, denominator>> of the
\* float64 it stands for.
RateEq(a, b) == a[1] * b[2] = b[1] * a[2]

\* GetSuccessRate(messageType): 0 without entries, else
\* float64(successful) / float64(total) * 100.
GetSuccessRate(messageType) ==
    LET c == CountEntries(messages, messageType)
    IN IF c.total = 0 THEN <<0, 1>> ELSE <<c.successful * 100, c.total>>


\* An average that counts every successful entry, whatever its duration.
SuccessOnly(e) == e.Success
\* GetAverageResponseTime: if entry.Success && entry.Duration > 0.
Qualifies(e) == e.Success /\ e.Duration > 0

RECURSIVE SumEntries(_)
\* The inner loop of GetAverageResponseTime over the entries of one
\* message: totalDuration += entry.Duration; count++.
SumEntries(h) ==
    IF h = <<>> THEN [totalDuration |-> 0, count |-> 0]
    ELSE LET rest == SumEntries(Tail(h))
         IN IF Qualifies(Head(h))
            THEN [totalDuration |-> rest.totalDuration + Head(h).Duration,
                  count |-> rest.count + 1]
            ELSE rest

RECURSIVE SumMessages(_, _)
\* The outer loop over the snapshot of the set.
SumMessages(S, messageType) ==
    IF S = {} THEN [totalDuration |-> 0, count |-> 0]
    ELSE LET o == CHOOSE x \in S : TRUE
             rest == SumMessages(S \ {o}, messageType)
             mine == SumEntries(history[o])
         IN IF GetType(o) = messageType
            THEN [totalDuration |-> rest.totalDuration + mine.totalDuration,
                  count |-> rest.count + mine.count]
            ELSE rest

\* GetAverageResponseTime(messageType): 0 when nothing was counted, else
\* totalDuration / time.Duration(count), an integer division.
GetAverageResponseTime(messageType) ==
    LET a == SumMessages(messages, messageType)
    IN IF a.count = 0 THEN 0 ELSE a.totalDuration \div a.count

\* The entry a finished request leaves in the history of message o: a
\* failure (Duration keeps its zero value) or a success that took d
\* clock units (d is 0 when both readings of the clock agree).
StatEntry(o, ok, d) ==
    [obj |-> o, Index |-> Len(history[o]), Success |-> ok,
     Data |-> IF ok THEN "response" ELSE "none",
     Error |-> IF ok THEN ErrNone ELSE ErrTimeout,
     Duration |-> d]

RECURSIVE TotalLen(_)
TotalLen(S) ==
    IF S = {} THEN 0
    ELSE LET o == CHOOSE x \in S : TRUE IN Len(history[o]) + TotalLen(S \ {o})

\* Message.add(log) at the end of a request on message o, whether or not
\* o is in the set at that time.
StatsRecord(o) ==
    /\ TotalLen(Objs) < MaxHist
    /\ \E e \in {StatEntry(o, FALSE, 0)} \cup {StatEntry(o, TRUE, d) : d \in 0..MaxDuration} :
          history' = [history EXCEPT ![o] = Append(@, e)]
    /\ UNCHANGED <<sinkVars, queryVars, procVars, bufVars, ctxVars, closeVars, wg, workVars,
                   index, produced, calls, sent, nodeVars, panicked, requests>>

InitStats ==
    /\ messages \in InitMessages
    /\ Mavlink = "mavlink" /\ AT = "at"
    /\ InitState

NextStats ==
    \/ \E o \in Objs : AddMessage(o)
    \/ \E o \in Objs : RemoveMessage(o)
    \/ \E o \in Objs : StatsRecord(o)

\* The histories and the set as requests and the client change them,
\* seen from the statistics queries.
SpecStats == InitStats /\ [][NextStats]_vars


\* ------------------------------------------------ a writer that can fail
\* The medium behind the Writer begins to fail (a full disk, a closed
\* file): the calls of Write return an error from now on.
WriterBreaks ==
    /\ ~writerBroken
    /\ writerBroken' = TRUE
    /\ UNCHANGED <<sinkVars, queryVars, procVars, logBuffer, logMux, written, writeErrs, ctxVars,
                   closeVars, wg, workVars, msgVars, calls, sent, nodeVars, panicked, requests>>

\* The medium works again.
WriterRecovers ==
    /\ writerBroken
    /\ writerBroken' = FALSE
    /\ UNCHANGED <<sinkVars, queryVars, procVars, logBuffer, logMux, written, writeErrs, ctxVars,
                   closeVars, wg, workVars, msgVars, calls, sent, nodeVars, panicked, requests>>

NextFlush ==
    \/ Start
    \/ Worker
    \/ WriterBreaks
    \/ WriterRecovers
    \/ RootCancel

\* The worker over a Writer that can fail, up to the shutdown flush.
SpecFlush == InitStats /\ [][NextFlush]_vars

\* ------------------------------------------------- a query among changes
\* The messages the client adds and removes while a query runs.
QDynamic == {"at1", "at2"}

\* What is left alone by the steps of a query and of Message.add.
queryFrame == <<sinkVars, procVars, bufVars, ctxVars, closeVars, wg, workVars,
                index, produced, calls, sent, nodeVars, panicked, requests, muxOp>>

\* An entry read while it was being written.
TornLog(o) == [StatEntry(o, FALSE, 0) EXCEPT !.Error = "torn"]

\* Message.add: m.mux.Lock(), then the append of the entry of a request
\* (here one that succeeded) begins.  One request runs at a time.
AddBegin(o) ==
    /\ TotalLen(Objs) < MaxHist
    /\ \A x \in Objs : adding[x] = <<>>
    /\ LockFree(MsgMux(o), "w")
    /\ adding' = [adding EXCEPT ![o] = <<StatEntry(o, TRUE, 1)>>]
    /\ UNCHANGED <<queryFrame, history, qpc, qtype, qset, qtodo, qread, qseen, qsets, qbase, setObs>>

\* Message.add: m.messages = append(m.messages, log) is complete, Unlock.
AddEnd(o) ==
    /\ adding[o] # <<>>
    /\ history' = [history EXCEPT ![o] = Append(@, adding[o][1])]
    /\ adding' = [adding EXCEPT ![o] = <<>>]
    /\ UNCHANGED <<queryFrame, qpc, qtype, qset, qtodo, qread, qseen, qsets, qbase, setObs>>

\* The query begins: getMessages takes p.mux.RLock() and Values() starts
\* to walk the set.
QueryStart(t) ==
    /\ qpc = "idle"
    /\ LockFree(PMux, "r")
    /\ qpc' = "values"
    /\ qtype' = t
    /\ qset' = {}
    /\ qsets' = {messages}
    /\ qbase' = [o \in Objs |-> Len(history[o])]
    /\ UNCHANGED <<queryFrame, history, qtodo, qread, qseen, adding, setObs>>

\* Values(): the walk reaches one more member of the set, or has reached
\* them all and getMessages returns (RUnlock).
QueryValues ==
    /\ qpc = "values"
    /\ IF messages \ qset # {}
       THEN /\ \E o \in messages \ qset : qset' = qset \cup {o}
            /\ UNCHANGED <<qpc, qtodo>>
       ELSE /\ qpc' = "scan"
            /\ qtodo' = qset
            /\ UNCHANGED qset
    /\ UNCHANGED <<queryFrame, history, qtype, qread, qseen, adding, qsets, qbase, setObs>>

\* What GetAllEntries of message o returns: m.messages as it stands, or,
\* when it reads the slice while add is writing it, possibly an entry
\* that is not whole.
Observe(o) ==
    IF adding[o] = <<>> THEN {history[o]}
    ELSE {history[o], Append(history[o], TornLog(o))}

\* The range loop of the query: the next message, skipped when its type
\* differs, else GetAllEntries (RLock on the message) and the loop over
\* the entries returned.
QueryScanOf(o) ==
    /\ qpc = "scan"
    /\ o \in qtodo
    /\ qtodo' = qtodo \ {o}
    /\ IF GetType(o) = qtype
       THEN /\ LockFree(MsgMux(o), "r")
            /\ \E h \in Observe(o) : qseen' = [qseen EXCEPT ![o] = h]
            /\ qread' = qread \cup {o}
       ELSE UNCHANGED <<qseen, qread>>
    /\ UNCHANGED <<queryFrame, history, qpc, qtype, qset, adding, qsets, qbase, setObs>>

QueryScan == \E o \in Objs : QueryScanOf(o)

\* The range loop is over and the query returns.
QueryReturn ==
    /\ qpc = "scan"
    /\ qtodo = {}
    /\ qpc' = "done"
    /\ UNCHANGED <<queryFrame, history, qtype, qset, qtodo, qread, qseen, adding, qsets, qbase, setObs>>

NextQuery ==
    \/ \E o \in QDynamic : AddMessage(o)
    \/ \E o \in QDynamic : RemoveMessage(o)
    \/ \E o \in Objs : AddBegin(o)
    \/ \E o \in Objs : AddEnd(o)
    \/ \E t \in Types : QueryStart(t)
    \/ QueryValues
    \/ QueryScan
    \/ QueryReturn

\* One statistics query while requests record entries and the client
\* changes the set.
SpecQuery == InitStats /\ [][NextQuery]_vars

\* ================================================================ writers
\* Two entries as the requests build them: a successful modem entry and a
\* failed telemetry entry.  Times are in milliseconds.
EntryOK ==
    [Index |-> 0, MessageType |-> "at-+CSQ", MessageID |-> "nil", Success |-> TRUE,
     Data |-> "+CSQ: 20,99", Error |-> "", RequestTime |-> 10, ResponseTime |-> 12,
     Duration |-> 2]
EntryFail ==
    [Index |-> 1, MessageType |-> "mavlink-24", MessageID |-> "nil", Success |-> FALSE,
     Data |-> "nil", Error |-> "x", RequestTime |-> 20, ResponseTime |-> 0,
     Duration |-> 0]

SampleEntries == {EntryOK, EntryFail}

\* The batches a caller hands to Write, the empty one included.
Batches == UNION {[1..n -> SampleEntries] : n \in 0..MaxLen}

\* The engine before and while the writers are exercised on their own.
InitSinks ==
    /\ messages = {}
    /\ Mavlink = "nil" /\ AT = "nil"
    /\ InitState

\* ------------------------------------------- the set changed while polling
NextSet ==
    \/ Start
    \/ Worker
    \/ \E o \in QDynamic : SetBegin("add", o)
    \/ \E o \in QDynamic : SetBegin("remove", o)
    \/ SetEnd

\* The worker and a client that adds, removes and adds again the command
\* messages, lock by lock; both backends are the right ones.
SpecSet == InitStats /\ [][NextSet]_vars

\* ------------------------------------------------- the three locks at once
\* A modem request up to the point where Message.add holds the mux of the
\* message: the command has returned (here with a response) and the entry
\* is made.
RequestLock(w) ==
    /\ ~panicked
    /\ pc[w] = "request"
    /\ \E o \in Remaining(w) :
         /\ HandleOf(o) = "at" /\ Kind(o) = "at"
         /\ LockFree(MsgMux(o), "w")
         /\ todo' = [todo EXCEPT ![w] = @ \ {o}]
         /\ calls' = [calls EXCEPT ![o] = @ + 1]
         /\ sent' = [sent EXCEPT ![o] = @ + 1]
         /\ LET log == [obj |-> o, Index |-> index[o], Success |-> FALSE,
                        Data |-> "none", Error |-> ErrNone]
                e == Succeeded(log, "response")
            IN /\ entry' = [entry EXCEPT ![w] = e]
               /\ adding' = [adding EXCEPT ![o] = <<e>>]
         /\ pc' = [pc EXCEPT ![w] = "adding"]
    /\ UNCHANGED <<sinkVars, qpc, qtype, qset, qtodo, qread, qseen, muxOp, qsets, qbase, setObs,
                   procVars, bufVars, ctxVars, closeVars, wg, ret, timedOut, skipped,
                   tickVars, msgVars, nodeVars, panicked, requests>>

\* Message.add appends the entry and unlocks, Process returns (the
\* deferred m.index++), request() aggregates the error.
RequestUnlock(w) ==
    /\ ~panicked
    /\ pc[w] = "adding"
    /\ Record(w, entry[w].obj, entry[w], ~entry[w].Success)
    /\ adding' = [adding EXCEPT ![entry[w].obj] = <<>>]
    /\ UNCHANGED <<sinkVars, qpc, qtype, qset, qtodo, qread, qseen, muxOp, qsets, qbase, setObs,
                   procVars, bufVars, ctxVars, closeVars, wg, todo, ret, timedOut, skipped,
                   calls, sent, nodeVars, panicked, requests>>

InitMutex ==
    /\ messages = {"at1"}
    /\ Mavlink = "mavlink" /\ AT = "at"
    /\ InitState

NextMutex ==
    \/ Start
    \/ \E w \in Workers : LoopSelect(w)
    \/ \E w \in Workers : RequestLock(w)
    \/ \E w \in Workers : RequestUnlock(w)
    \/ \E w \in Workers : LoopAppend(w)
    \/ \E w \in Workers : LoopFlush(w)
    \/ \E w \in Workers : LoopWriteReturn(w)
    \/ \E o \in Dynamic : SetBegin("add", o)
    \/ \E o \in Dynamic : SetBegin("remove", o)
    \/ SetEnd
    \/ QueryStart(GetType("at1"))
    \/ QueryValues
    \/ QueryScan
    \/ QueryReturn
    \/ CloseCall("c1")
    \/ CloseWriter("c1")
    \/ CloseReturn("c1")

\* Every operation that takes a lock, each step by step from one lock
\* operation to the next: the worker polling the command messages, a
\* client that changes the set, a statistics query, and Close.
SpecMutex == InitMutex /\ [][NextMutex]_vars

\* ------------------------------------------------------------ MultiWriter
Sinks == 1..NSinks

\* The error sink i returns from a failing Write or Close.
SinkError(i, op) == <<"sink", i, op>>

\* multierr.Append(err, e): the combined error holds the errors appended
\* so far; nil is the empty combination.
MultierrAppend(err, e) == Append(err, e)

\* A range loop that returns at the first failing sink.
StopAtFailure(i, failed) == IF failed THEN NSinks + 1 ELSE i + 1
\* MultiWriter.Write: the range loop goes on to the next writer whether
\* or not the call on writer i failed.
WriteAdvance(i, failed) == i + 1
\* MultiWriter.Close: the same for the loop over Close.
CloseAdvance(i, failed) == i + 1

MWBusy == mwOp # "none" /\ mwResult = "pending"

\* MultiWriter.Write(entries) / MultiWriter.Close() is called: var err error.
MWEnter(op, batch) ==
    /\ ~MWBusy
    /\ mwCalls < MaxCalls
    /\ mwOp' = op
    /\ mwNext' = 1
    /\ mwBatch' = batch
    /\ mwErr' = <<>>
    /\ mwResult' = "pending"
    /\ mwLog' = <<>>
    /\ mwFailed' = {}
    /\ mwCalls' = mwCalls + 1
    /\ UNCHANGED <<engineVars, queryVars, csvVars, binVars>>

MultiWrite(batch) == MWEnter("write", batch)

MultiClose == MWEnter("close", <<>>)

\* One iteration of the loop of Write: writer.Write(entries) on the next
\* sink, which succeeds or fails; a failure is appended to err.
MultiWriteSink ==
    /\ MWBusy /\ mwOp = "write"
    /\ mwNext \in Sinks
    /\ \E failed \in BOOLEAN :
          /\ mwLog' = Append(mwLog, [op |-> "write", sink |-> mwNext, batch |-> mwBatch])
          /\ mwErr' = IF failed THEN MultierrAppend(mwErr, SinkError(mwNext, "write")) ELSE mwErr
          /\ mwFailed' = IF failed THEN mwFailed \cup {mwNext} ELSE mwFailed
          /\ mwNext' = WriteAdvance(mwNext, failed)
    /\ UNCHANGED <<engineVars, queryVars, csvVars, binVars, mwOp, mwBatch, mwResult, mwCalls>>

\* One iteration of the loop of Close: writer.Close() on the next sink.
MultiCloseSink ==
    /\ MWBusy /\ mwOp = "close"
    /\ mwNext \in Sinks
    /\ \E failed \in BOOLEAN :
          /\ mwLog' = Append(mwLog, [op |-> "close", sink |-> mwNext, batch |-> <<>>])
          /\ mwErr' = IF failed THEN MultierrAppend(mwErr, SinkError(mwNext, "close")) ELSE mwErr
          /\ mwFailed' = IF failed THEN mwFailed \cup {mwNext} ELSE mwFailed
          /\ mwNext' = CloseAdvance(mwNext, failed)
    /\ UNCHANGED <<engineVars, queryVars, csvVars, binVars, mwOp, mwBatch, mwResult, mwCalls>>

\* The loop is over: return err.
MultiReturn ==
    /\ MWBusy
    /\ mwNext \notin Sinks
    /\ mwResult' = mwErr
    /\ UNCHANGED <<engineVars, queryVars, csvVars, binVars, mwOp, mwNext, mwBatch, mwErr, mwLog, mwFailed,
                   mwCalls>>

NextMultiWriter ==
    \/ \E b \in Batches : MultiWrite(b)
    \/ MultiClose
    \/ MultiWriteSink
    \/ MultiCloseSink
    \/ MultiReturn

SpecMultiWriter == InitSinks /\ [][NextMultiWriter]_vars

\* -------------------------------------------------------------- CSVWriter
\* The header row of CSVWriter.Write.
CSVHeader ==
    <<"index", "message_type", "message_id", "timestamp", "success", "data", "error",
      "request_time", "response_time", "duration_ms">>

\* fmt.Sprintf("%d", ...), ("%v", ...), ("%t", ...), Time.Format(RFC3339Nano)
\* and ("%.2f", milliseconds): the text of a field.
FormatInt(n) == ToString(n)
FormatAny(v) == IF v = "nil" THEN "<nil>" ELSE v
FormatBool(b) == IF b THEN "true" ELSE "false"
FormatTime(t) == <<"RFC3339Nano", t>>
FormatMillis(d) == ToString(d) \o ".00"

\* The record CSVWriter.Write builds for an entry.
CSVRecord(e) ==
    <<FormatInt(e.Index), e.MessageType, FormatAny(e.MessageID), FormatBool(e.Success),
      FormatAny(e.Data), e.Error, FormatTime(e.RequestTime), FormatTime(e.ResponseTime),
      FormatMillis(e.Duration)>>

\* A row of the file, with the entry it was built from.
HeaderRow == [kind |-> "header", fields |-> CSVHeader, entry |-> <<>>]
DataRow(e) == [kind |-> "data", fields |-> CSVRecord(e), entry |-> e]
DataRows(batch) == [i \in 1..Len(batch) |-> DataRow(batch[i])]

\* A Write that never marks the header as written.
HeaderForgotten(h) == h
\* w.header = true, after the header went to the csv.Writer.
HeaderDone(h) == TRUE

\* CSVWriter.Write(entries), under w.mu.  The csv.Writer buffers the rows
\* and hands them to the file when its buffer fills and at the final
\* Flush; once a write to the file has failed it holds the error, writes
\* nothing more and fails every later Write and Flush.  A failing file
\* takes some leading part of the rows handed to it.
CSVWrite(batch) ==
    /\ csvCalls < MaxCalls
    /\ csvCalls' = csvCalls + 1
    /\ IF csvBroken
       THEN \* w.writer.Write(header) or the first record returns the held
            \* error (line 95 / 113), or Flush leaves it in w.writer.Error()
            /\ csvResult' = "error"
            /\ UNCHANGED <<csvHeader, csvBroken, csvOut>>
       ELSE LET rows == (IF csvHeader THEN <<>> ELSE <<HeaderRow>>) \o DataRows(batch)
            IN /\ csvHeader' = HeaderDone(csvHeader)
               /\ \/ /\ csvOut' = csvOut \o rows
                     /\ csvResult' = "nil"
                     /\ UNCHANGED csvBroken
                  \/ \E kept \in 0..Len(rows) :
                        /\ rows # <<>>
                        /\ kept < Len(rows)
                        /\ csvOut' = csvOut \o SubSeq(rows, 1, kept)
                        /\ csvBroken' = TRUE
                        /\ csvResult' = "error"
    /\ UNCHANGED <<engineVars, queryVars, mwVars, binVars>>

NextCSV == \E b \in Batches : CSVWrite(b)

SpecCSV == InitSinks /\ [][NextCSV]_vars

\* ----------------------------------------------------------- BinaryWriter
\* The file is a sequence of bytes.  A byte of a length prefix is
\* <<"byte", n>>; the JSON text of an entry is kept member by member, one
\* <<key, value>> pair standing for the bytes of that member.

\* One member of the JSON object, left out when the field is tagged
\* omitempty and holds its empty value.
Member(key, value, omitted) == IF omitted THEN <<>> ELSE << <<key, value>> >>

\* json.Marshal(entry), after the struct tags of LogEntry.  Metadata is
\* never set by the requests and is omitted.
Marshal(e) ==
    Member("index", e.Index, FALSE)
       \o Member("message_type", e.MessageType, FALSE)
       \o Member("message_id", e.MessageID, e.MessageID = "nil")
       \o Member("success", e.Success, FALSE)
       \o Member("data", e.Data, e.Data = "nil")
       \o Member("error", e.Error, e.Error = "")
       \o Member("request_time", e.RequestTime, FALSE)
       \o Member("response_time", e.ResponseTime, FALSE)
       \o Member("duration", e.Duration, e.Duration = 0)

\* The LogEntry a decoder starts from.
ZeroEntry ==
    [Index |-> 0, MessageType |-> "", MessageID |-> "nil", Success |-> FALSE,
     Data |-> "nil", Error |-> "", RequestTime |-> 0, ResponseTime |-> 0, Duration |-> 0]

\* json.Unmarshal stores one member in the field that carries its tag.
SetMember(e, m) ==
    CASE m[1] = "index" -> [e EXCEPT !.Index = m[2]]
      [] m[1] = "message_type" -> [e EXCEPT !.MessageType = m[2]]
      [] m[1] = "message_id" -> [e EXCEPT !.MessageID = m[2]]
      [] m[1] = "success" -> [e EXCEPT !.Success = m[2]]
      [] m[1] = "data" -> [e EXCEPT !.Data = m[2]]
      [] m[1] = "error" -> [e EXCEPT !.Error = m[2]]
      [] m[1] = "request_time" -> [e EXCEPT !.RequestTime = m[2]]
      [] m[1] = "response_time" -> [e EXCEPT !.ResponseTime = m[2]]
      [] m[1] = "duration" -> [e EXCEPT !.Duration = m[2]]
      [] OTHER -> e

RECURSIVE UnmarshalInto(_, _)
UnmarshalInto(e, data) ==
    IF data = <<>> THEN e ELSE UnmarshalInto(SetMember(e, Head(data)), Tail(data))

\* uint32(len(data)): the low 32 bits, taken 16 bits at a time.
Uint32(n) == (n % 65536) + 65536 * ((n \div 65536) % 65536)

\* A length prefix written most significant byte first.
BigEndian(n) ==
    << <<"byte", (n \div 16777216) % 256>>, <<"byte", (n \div 65536) % 256>>,
       <<"byte", (n \div 256) % 256>>, <<"byte", n % 256>> >>
\* binary.Write(w.file, binary.LittleEndian, length): four bytes, least
\* significant first.
LittleEndian(n) ==
    << <<"byte", n % 256>>, <<"byte", (n \div 256) % 256>>,
       <<"byte", (n \div 65536) % 256>>, <<"byte", (n \div 16777216) % 256>> >>

\* What one iteration of the loop of Write adds to the file.
Frame(e) == LittleEndian(Uint32(Len(Marshal(e)))) \o Marshal(e)

RECURSIVE Frames(_)
Frames(batch) == IF batch = <<>> THEN <<>> ELSE Frame(Head(batch)) \o Frames(Tail(batch))

\* BinaryWriter.Write(entries), under w.mu.  Either every entry is
\* framed and written, or a write to the file fails: the entries before
\* it are in the file, the failing one left nothing or its length prefix
\* only, and Write returns the error.
BinWrite(batch) ==
    /\ binCalls < MaxCalls
    /\ binCalls' = binCalls + 1
    /\ \/ /\ binOut' = binOut \o Frames(batch)
          /\ binEntries' = binEntries \o batch
          /\ binResult' = "nil"
          /\ UNCHANGED binFailed
       \/ \E j \in 1..Len(batch), prefixOnly \in BOOLEAN :
             /\ binOut' = binOut \o Frames(SubSeq(batch, 1, j - 1))
                             \o (IF prefixOnly
                                 THEN LittleEndian(Uint32(Len(Marshal(batch[j]))))
                                 ELSE <<>>)
             /\ binEntries' = binEntries \o SubSeq(batch, 1, j - 1)
             /\ binResult' = "error"
             /\ binFailed' = TRUE
    /\ UNCHANGED <<engineVars, queryVars, mwVars, csvVars>>

NextBinary == \E b \in Batches : BinWrite(b)

SpecBinary == InitSinks /\ [][NextBinary]_vars

\* ============================================================== properties

\* Every started worker has returned from loop().
LoopTerminated ==
    /\ \E w \in Workers : pc[w] = "done"
    /\ \A w \in Workers : pc[w] \in {"idle", "done"}

\* C1: once the background loop has terminated, the batches handed to
\* Writer.Write, concatenated in call order, are exactly the entries the
\* requests produced, in production order (none missing, none repeated),
\* and the buffer is empty.
C1_NoEntryLostOrDuplicated ==
    LoopTerminated => /\ Flatten(written) = produced
                      /\ logBuffer = <<>>

\* The loop has terminated after two entries went out in two batches.
C1_Witness ==
    /\ LoopTerminated
    /\ Len(produced) = 2
    /\ Len(written) = 2

\* C2: a step invokes Writer.Write if and only if it is an append that
\* brings the buffer to the batch size, or the flush of the timer branch or
\* of the shutdown branch finding the buffer non-empty; the batch handed
\* over is the whole, non-empty buffer.  The flush is reached only from the
\* timer case and from the ctx.Done() case of the loop's select.
C2_FlushTriggers ==
    [][ /\ (written' # written) <=>
              \E w \in Workers :
                 /\ pc'[w] # pc[w]
                 /\ \/ pc[w] = "append" /\ Len(logBuffer') >= logBatchSize
                    \/ pc[w] = "flush" /\ logBuffer # <<>>
        /\ (written' # written) =>
              /\ Len(written') = Len(written) + 1
              /\ written'[Len(written')] # <<>>
              /\ written'[Len(written')] = logBuffer'
        /\ \A w \in Workers :
              pc'[w] = "flush" =>
                 /\ ret'[w] \in {"select", "exit"}
                 /\ ret'[w] = "exit" => ctxDone'
      ]_vars

\* The shutdown flush is writing the second batch of the run.
C2_Witness ==
    \E w \in Workers :
       /\ pc[w] = "writing"
       /\ ret[w] = "exit"
       /\ Len(written) = 2

\* C3: however many calls of Close there are, the shutdown logic runs
\* once: the context is cancelled by Close once and Writer.Close is invoked
\* once, and it has been invoked when a call of Close has returned.
C3_ShutdownOnce ==
    /\ closeCount <= 1
    /\ cancelCount <= 1
    /\ \A c \in Closers : cpc[c] = "returned" => closeCount = 1 /\ cancelCount = 1

\* Two calls of Close have returned.
C3_Witness == \A c \in Closers : cpc[c] = "returned"

\* C4: every call of Close returns what the first call returned.
C4_SameResult ==
    \A c, d \in Closers :
       (cpc[c] = "returned" /\ cpc[d] = "returned") => closeResult[c] = closeResult[d]

\* C5: Writer.Write is never invoked after Writer.Close has been invoked
\* (no Write is in progress on a closed writer).
C5_NoWriteAfterClose ==
    closeCount > 0 => \A w \in Workers : pc[w] # "writing"

\* C6: a telemetry request that was waiting, its timeout not elapsed, when
\* Close was called ends with the cancelled result and not with the
\* timeout result.  Stated for the runs in which nothing but Close cancels
\* a context and for the half "not with the timeout result".
C6_CloseCancelsInFlight ==
    \A w \in Workers :
       (pc[w] = "append" /\ w \in inflightAtClose /\ ~rootDone)
          => entry[w].Error # ErrTimeout

\* C7: a telemetry request that was waiting, its timeout not elapsed, when
\* the context it waits on was cancelled never records the timeout result.
C7_CancelBeatsTimeout ==
    \A w \in Workers :
       (pc[w] = "append" /\ w \in inflightAtCancel) => entry[w].Error # ErrTimeout

\* The calls of Process on o that have not yet recorded their result.
InFlight(o) == Cardinality({w \in Workers : pc[w] = "mselect" /\ entry[w].obj = o})

\* C8: every call of Message.Process that has returned appended one entry
\* to the history of its message and bumped its index by one: after k calls
\* the history has k entries, the index is k and the i-th entry (0-based)
\* has Index i.
C8_OneEntryPerCall ==
    \A o \in Objs :
       /\ Len(history[o]) = calls[o] - InFlight(o)
       /\ index[o] = Len(history[o])
       /\ \A i \in 1..Len(history[o]) : history[o][i].Index = i - 1

\* A message was processed twice, once with success and once without.
C8_Witness ==
    \E o \in Objs :
       /\ Len(history[o]) = 2
       /\ InFlight(o) = 0
       /\ history[o][1].Success # history[o][2].Success

\* C9: a message whose backend handle is nil fails with an error value;
\* the scheduler does not crash.
C9_NoCrashOnNilBackend == ~panicked

\* C10: the active set never holds two messages of the same identity.
C10_UniqueIdentity ==
    \A a, b \in messages : Identity(a) = Identity(b) => a = b

\* Every entry handed to addLogEntry so far, in order: the batches written
\* and the entries still in the buffer (during a Write the buffer is the
\* batch being written).
Buffered == IF logMux = NoWorker THEN Flatten(written) \o logBuffer ELSE Flatten(written)

\* s is the tail of t.
IsSuffix(s, t) ==
    /\ Len(s) <= Len(t)
    /\ \A i \in 1..Len(s) : s[i] = t[Len(t) - Len(s) + i]

\* request() has returned from its tick: no message of the snapshot is
\* left and the last addLogEntry is over.
TickComplete(w) ==
    /\ snap[w] # {}
    /\ todo[w] = {}
    /\ pc[w] \in {"select", "flush", "done"} \/ (pc[w] = "writing" /\ ret[w] # "next")

\* The requests of the tick that returned a non-nil error: every failed
\* entry but the one of a cancelled wait, which returns a nil error.
ReturnedError(e) == e.Error \notin {ErrNone, ErrCancelled}

\* C11: when a request tick is over, every message of its snapshot was
\* requested exactly once and exactly one entry per message, success or
\* failure, was appended to the shared buffer, whatever number of requests
\* returned errors; the tick's error is non-nil iff a request returned one.
C11_TickPollsEachOnce ==
    \A w \in Workers :
       TickComplete(w) =>
          /\ Len(polled[w]) = Cardinality(snap[w])
          /\ {polled[w][i].obj : i \in 1..Len(polled[w])} = snap[w]
          /\ IsSuffix(polled[w], Buffered)
          /\ tickErr[w] <=> \E i \in 1..Len(polled[w]) : ReturnedError(polled[w][i])

\* A tick of two messages is over: the first request returned an error and
\* the second one succeeded.
C11_Witness ==
    \E w \in Workers :
       /\ TickComplete(w)
       /\ Len(polled[w]) = 2
       /\ ReturnedError(polled[w][1])
       /\ polled[w][2].Success
       /\ tickErr[w]

\* C12: one background worker drives the polling however often Start is
\* called: at no time are two requests in flight, and no message is inside
\* two calls of Process at once.
C12_OneRequestInFlight ==
    /\ Cardinality({w \in Workers : pc[w] = "mselect"}) <= 1
    /\ \A o \in Objs : InFlight(o) <= 1

\* C13: once the processor's context is cancelled, the next evaluation of
\* the loop's select takes the shutdown branch (final flush, then return):
\* no request tick and no periodic flush is started after the cancellation.
C13_ShutdownBranchFirst ==
    [][ \A w \in Workers :
           (ctxDone /\ pc[w] = "select" /\ (pc'[w] # pc[w] \/ requests' # requests))
              => (pc'[w] = "flush" /\ ret'[w] = "exit")
      ]_vars

\* C14: the value Close returns aggregates the outstanding request error:
\* when the request tick that was in progress at shutdown ended with an
\* error, the call of Close that ran the shutdown returns a non-nil error,
\* also when Writer.Close succeeded.
C14_CloseReportsRequestError ==
    (cpc["c1"] = "returned" /\ \E w \in tickAtClose : TickComplete(w) /\ tickErr[w])
       => closeResult["c1"] = "error"

\* The call of op on the MultiWriter has returned.
MWReturned(op) == mwOp = op /\ mwResult # "pending"

\* The errors held by a combined error.
ErrorsIn(err) == {err[i] : i \in 1..Len(err)}

\* C15: when MultiWriter.Write has returned, every sink was handed the
\* same batch once, in the order of the sinks, whatever sinks failed; the
\* result is non-nil iff a sink failed and holds every failing sink's error.
C15_MultiWriteReachesEverySink ==
    MWReturned("write") =>
       /\ mwLog = [i \in Sinks |-> [op |-> "write", sink |-> i, batch |-> mwBatch]]
       /\ (mwResult # <<>>) <=> (mwFailed # {})
       /\ ErrorsIn(mwResult) = {SinkError(i, "write") : i \in mwFailed}

\* Write has returned after the first sink failed and the last succeeded.
C15_Witness ==
    /\ MWReturned("write")
    /\ mwBatch # <<>>
    /\ 1 \in mwFailed
    /\ NSinks \notin mwFailed
    /\ Len(mwLog) = NSinks

\* C16: when MultiWriter.Close has returned, Close was called on every
\* sink exactly once, whatever sinks failed to close, and the result is
\* non-nil iff a sink's Close failed.
C16_MultiCloseReachesEverySink ==
    MWReturned("close") =>
       /\ mwLog = [i \in Sinks |-> [op |-> "close", sink |-> i, batch |-> <<>>]]
       /\ (mwResult # <<>>) <=> (mwFailed # {})

\* Close has returned after the first sink failed to close.
C16_Witness ==
    /\ MWReturned("close")
    /\ 1 \in mwFailed
    /\ Len(mwLog) = NSinks

\* The positions of the header row in the output.
HeaderAt == {i \in 1..Len(csvOut) : csvOut[i].kind = "header"}

ColumnValue(c, e) ==
    CASE c = "index" -> FormatInt(e.Index)
      [] c = "message_type" -> e.MessageType
      [] c = "message_id" -> FormatAny(e.MessageID)
      [] c = "success" -> FormatBool(e.Success)
      [] c = "data" -> FormatAny(e.Data)
      [] c = "error" -> e.Error
      [] c = "request_time" -> FormatTime(e.RequestTime)
      [] c = "response_time" -> FormatTime(e.ResponseTime)
      [] c = "duration_ms" -> FormatMillis(e.Duration)
      [] OTHER -> "no value"

\* C18: every data row of the output has one field per header column and
\* its k-th field is the value of the k-th header column.
C18_RowMatchesHeader ==
    \A i \in 1..Len(csvOut) :
       csvOut[i].kind = "data" =>
          /\ Len(csvOut[i].fields) = Len(CSVHeader)
          /\ \A k \in 1..Len(CSVHeader) :
                (CSVHeader[k] # "timestamp" /\ k <= Len(csvOut[i].fields))
                   => csvOut[i].fields[k] = ColumnValue(CSVHeader[k], csvOut[i].entry)

\* What a reader of the file finds in place of a record that is cut short.
TornEntry == [ZeroEntry EXCEPT !.MessageType = "torn"]

\* The value of a length prefix read least significant byte first.
PrefixValue(bs) == bs[1][2] + 256 * bs[2][2] + 65536 * bs[3][2] + 16777216 * bs[4][2]

RECURSIVE DecodeStream(_)
\* Reading the file record by record: four bytes of length, that many
\* bytes of JSON, decoded into a LogEntry.
DecodeStream(st) ==
    IF st = <<>> THEN <<>>
    ELSE IF Len(st) < 4 \/ \E i \in 1..4 : st[i][1] # "byte" THEN <<TornEntry>>
    ELSE LET n == PrefixValue(SubSeq(st, 1, 4))
         IN IF Len(st) < 4 + n \/ \E i \in 5..(4 + n) : st[i][1] = "byte"
            THEN <<TornEntry>>
            ELSE <<UnmarshalInto(ZeroEntry, SubSeq(st, 5, 4 + n))>>
                    \o DecodeStream(SubSeq(st, 5 + n, Len(st)))

\* C19: as long as no Write has failed, the file is, for each entry
\* written and in the order written, a 4-byte little-endian length
\* followed by that many bytes of the entry's JSON, with nothing between
\* the records: reading it record by record gives back the entries with
\* the same field values, over any number of calls of Write.
C19_BinaryRoundTrip ==
    ~binFailed => DecodeStream(binOut) = binEntries

\* Two calls of Write have written both kinds of entry.
C19_Witness ==
    /\ ~binFailed
    /\ binCalls = 2
    /\ Len(binEntries) >= 3
    /\ binEntries[1] = EntryFail
    /\ binEntries[Len(binEntries)] = EntryOK

\* The entries a query on type t is about: those of the histories of the
\* messages of type t in the active set.
EntriesOfType(t) ==
    UNION {{<<o, i>> : i \in 1..Len(history[o])} :
              o \in {m \in messages : GetType(m) = t}}

SuccessesOfType(t) == {x \in EntriesOfType(t) : history[x[1]][x[2]].Success}

\* C20: GetSuccessRate(t) is 100 * successful / total over the histories
\* of the messages of the active set whose type is t at the time of the
\* query, and 0 when these histories hold no entry.
C20_SuccessRate ==
    \A t \in Types :
       IF EntriesOfType(t) = {}
       THEN GetSuccessRate(t) = <<0, 1>>
       ELSE RateEq(GetSuccessRate(t),
                   <<100 * Cardinality(SuccessesOfType(t)), Cardinality(EntriesOfType(t))>>)

\* Two messages of one type are in the set, one with a successful and one
\* with a failed entry: the rate of the type is 50%.
C20_Witness ==
    \E t \in Types :
       /\ Cardinality({m \in messages : GetType(m) = t}) = 2
       /\ Cardinality(EntriesOfType(t)) = 2
       /\ Cardinality(SuccessesOfType(t)) = 1
       /\ RateEq(GetSuccessRate(t), <<50, 1>>)

\* The entries an average on type t counts.
QualifyingOfType(t) ==
    {x \in EntriesOfType(t) : history[x[1]][x[2]].Success /\ history[x[1]][x[2]].Duration > 0}

RECURSIVE DurationOver(_)
DurationOver(Q) ==
    IF Q = {} THEN 0
    ELSE LET x == CHOOSE y \in Q : TRUE
         IN history[x[1]][x[2]].Duration + DurationOver(Q \ {x})

\* A request on message o has just recorded an entry that is failed or
\* has no duration.
RecordedUncounted ==
    /\ messages' = messages
    /\ \E o \in Objs :
         /\ Len(history'[o]) = Len(history[o]) + 1
         /\ LET e == history'[o][Len(history'[o])]
            IN ~e.Success \/ e.Duration = 0

\* C21: GetAverageResponseTime(t) is the truncated mean of Duration over
\* the successful entries with a positive Duration in the histories of
\* the messages of type t in the active set, 0 when there is none; a
\* failed or zero-duration entry added to a history leaves it unchanged.
C21_AverageResponseTime ==
    /\ [](\A t \in Types :
            IF QualifyingOfType(t) = {}
            THEN GetAverageResponseTime(t) = 0
            ELSE GetAverageResponseTime(t) =
                    DurationOver(QualifyingOfType(t)) \div Cardinality(QualifyingOfType(t)))
    /\ [][RecordedUncounted =>
            \A t \in Types : GetAverageResponseTime(t)' = GetAverageResponseTime(t)]_vars

\* A type with three entries: successes of 1 and 2 units, whose mean is
\* truncated to 1, next to an entry that is not counted.
C21_Witness ==
    \E t \in Types :
       /\ Cardinality(EntriesOfType(t)) = 3
       /\ Cardinality(QualifyingOfType(t)) = 2
       /\ DurationOver(QualifyingOfType(t)) = 3
       /\ GetAverageResponseTime(t) = 1

IsPrefix(s, t) == Len(s) <= Len(t) /\ SubSeq(t, 1, Len(s)) = s

\* C22: a statistics query that runs while requests record entries and
\* the client adds and removes messages scans a set that p.messages was
\* at some instant of its getMessages call, and for each message it reads
\* it evaluates a prefix of the history that holds at least the entries
\* appended before the query began, each of them whole.
C22_NoTornRead ==
    /\ qpc \in {"scan", "done"} => qset \in qsets
    /\ \A o \in qread :
         /\ IsPrefix(qseen[o], history[o])
         /\ Len(qseen[o]) >= qbase[o]

\* A finished query read a message that got an entry after the query
\* began and before it was read, and another one afterwards, and the set
\* changed after the snapshot.
C22_Witness ==
    /\ qpc = "done"
    /\ messages # qset
    /\ \E o \in qread :
         /\ Len(qseen[o]) > qbase[o]
         /\ Len(history[o]) > Len(qseen[o])

\* Exactly one of data and error is populated, on the side of success.
OneOfDataError(e) ==
    IF e.Success THEN e.Data # "none" /\ e.Error = ErrNone
    ELSE e.Error # ErrNone /\ e.Data = "none"

\* The entries in the histories, on their way to the buffer, in the
\* buffer and in the batches handed to the writer.
RecordedEntries ==
    UNION {{history[o][i] : i \in 1..Len(history[o])} : o \in Objs}
      \cup {entry[w] : w \in {v \in Workers : pc[v] = "append"}}
      \cup {logBuffer[i] : i \in 1..Len(logBuffer)}
      \cup {Flatten(written)[i] : i \in 1..Len(Flatten(written))}

\* C23: every entry recorded in a history and handed to the buffer has
\* exactly one of data and error: data and no error when it is a
\* success, an error and no data when it is a failure, whatever the
\* outcome of the telemetry or modem request.
C23_DataXorError == \A e \in RecordedEntries : OneOfDataError(e)

\* A success and a failure were recorded and both reached the writer.
C23_Witness ==
    /\ Len(Flatten(written)) = 2
    /\ \E i, j \in 1..2 : Flatten(written)[i].Success /\ ~Flatten(written)[j].Success

\* Message o is requested against a backend it was not built for.
WrongBackend(o) == HandleOf(o) \notin {"nil", Kind(o)}

\* C24: a message processed against a requester of the wrong backend type
\* makes no protocol I/O and records, per call, one failed entry with the
\* structural mismatch error; the call returns a non-nil error, nothing
\* crashes, and the tick goes on to the other messages of its snapshot.
C24_WrongBackend ==
    /\ \A o \in Objs :
         WrongBackend(o) =>
            /\ sent[o] = 0
            /\ Len(history[o]) = calls[o]
            /\ \A i \in 1..Len(history[o]) :
                  /\ ~history[o][i].Success
                  /\ history[o][i].Error = ErrMismatch
                  /\ history[o][i].Data = "none"
    /\ (\E o \in Objs : WrongBackend(o)) => ~panicked
    /\ \A w \in Workers :
         (TickComplete(w) /\ \E o \in snap[w] : WrongBackend(o)) =>
            /\ tickErr[w]
            /\ {polled[w][i].obj : i \in 1..Len(polled[w])} = snap[w]

\* A tick over a telemetry and a modem message, each against the other's
\* backend, is over: both left a mismatch entry.
C24_Witness ==
    \E w \in Workers :
       /\ TickComplete(w)
       /\ snap[w] = {"mav1", "at1"}
       /\ \A o \in snap[w] : WrongBackend(o) /\ calls[o] = 1 /\ Len(history[o]) = 1
       /\ Len(polled[w]) = 2

\* C25: the lock of the set and the lock of the buffer are two locks and
\* no goroutine waits for one while it holds the other: while a flush is
\* in progress (Writer.Write under the buffer lock) an AddMessage or
\* RemoveMessage can take the set lock and can complete, and while one of
\* them holds the set lock a flush can start, write and finish.
C25_LocksIndependent ==
    ~panicked =>
       /\ (logMux # NoWorker /\ muxOp = <<>>) =>
             /\ \A o \in Dynamic : ENABLED SetBegin("add", o)
             /\ \A o \in Dynamic : ENABLED SetBegin("remove", o)
       /\ (logMux # NoWorker /\ muxOp # <<>>) => ENABLED SetEnd
       /\ \A w \in Workers :
            muxOp # <<>> =>
               /\ (pc[w] = "flush" /\ logMux = NoWorker) => ENABLED LoopFlush(w)
               /\ (pc[w] = "append" /\ logMux = NoWorker) => ENABLED LoopAppend(w)
               /\ pc[w] = "writing" => ENABLED LoopWriteReturn(w)

\* A flush is in progress while an AddMessage holds the lock of the set.
C25_Witness ==
    /\ ~panicked
    /\ \E w \in Workers : pc[w] = "writing" /\ logMux = w
    /\ muxOp = <<"add", "at2">>

\* A wait has ended with a failure although the context was not cancelled
\* and the event stream was open.
EndedUnanswered(w) ==
    /\ pc[w] = "mselect" /\ pc'[w] # "mselect"
    /\ ~rootDone /\ ~eventsClosed
    /\ ~entry'[w].Success

\* C26: a telemetry request that has sent its frame stops waiting in the
\* end, on a matching frame, on the timeout, on the cancellation of its
\* context or on the close of the event stream, also when frames of
\* other types never stop arriving; when it ends unanswered with the
\* context live and the stream open, its entry says "request timeout" and
\* its error is non-nil.
C26_WaitTerminates ==
    /\ \A w \in Workers : (pc[w] = "mselect") ~> (pc[w] # "mselect")
    /\ [][\A w \in Workers :
            EndedUnanswered(w) => entry'[w].Error = ErrTimeout /\ tickErr'[w]]_vars

\* A request that passed over events of other kinds has ended on its
\* timeout, the context live and the stream open.
C26_Witness ==
    /\ ~rootDone /\ ~eventsClosed
    /\ \E w \in Workers :
         /\ pc[w] = "append" /\ skipped[w]
         /\ entry[w].obj = "mav1" /\ entry[w].Error = ErrTimeout
         /\ tickErr[w]

\* The messages of the frames the requester of o asks for.
AwaitedMessages(o) == {ev.msg : ev \in {x \in Events : x.kind = "frame" /\ x.id = Identity(o)[2]}}

\* C27: a telemetry request records a success only for a frame whose
\* message is of the requested identity, and the data of that entry is
\* the message of that frame; a frame of another identity or an event
\* that is no frame is passed over: the wait goes on with its entry
\* untouched and nothing is recorded for it.
C27_OnlyMatchingFrame ==
    /\ \A o \in {x \in Objs : Kind(x) = "mavlink"} :
         /\ \A i \in 1..Len(history[o]) :
               history[o][i].Success => history[o][i].Data \in AwaitedMessages(o)
         /\ Len(history[o]) = calls[o] - InFlight(o)
    /\ \A w \in Workers :
         pc[w] = "mselect" =>
            /\ ~entry[w].Success /\ entry[w].Data = "none" /\ entry[w].Error = ErrNone
            /\ entry[w] \notin {history[entry[w].obj][i] : i \in 1..Len(history[entry[w].obj])}

\* A wait that passed over events of other kinds has ended on a frame of
\* the awaited identity.
C27_Witness ==
    \E w \in Workers :
       /\ pc[w] = "append" /\ skipped[w]
       /\ entry[w].obj = "mav1"
       /\ entry[w].Success /\ entry[w].Data = "frame"
       /\ history["mav1"][Len(history["mav1"])] = entry[w]

\* No entry occurs twice in s.
NoRepeat(s) == \A i, j \in 1..Len(s) : s[i] = s[j] => i = j

\* C28: when Writer.Write returns an error during a flush the buffer is
\* cleared all the same and the scheduler goes on as after a good write:
\* the batch is not retried, every entry is handed to Writer.Write at most
\* once and in order, and what is buffered afterwards are later entries.
C28_NoRetryAfterWriteError ==
    /\ [](/\ NoRepeat(Flatten(written))
          /\ IsPrefix(Flatten(written), produced)
          /\ logMux = NoWorker => IsPrefix(Flatten(written) \o logBuffer, produced))
    /\ [][\A w \in Workers :
            (pc[w] = "writing" /\ pc'[w] # "writing") =>
               /\ logBuffer' = <<>> /\ logMux' = NoWorker
               /\ pc'[w] = After(w, ret[w])
               /\ ~panicked']_vars

\* The first call of Write failed; the worker went on, and a later flush
\* handed over the next entry, alone.
C28_Witness ==
    /\ Len(writeErrs) = 2 /\ writeErrs[1]
    /\ Len(written) = 2
    /\ written[2] = <<produced[Len(produced)]>>
    /\ Len(produced) = Len(written[1]) + 1
    /\ logBuffer = <<>> /\ logMux = NoWorker

\* C29: Writer.Write is never invoked with an empty batch: a flush of the
\* timer or of the shutdown branch that finds the buffer empty returns at
\* once, and the flush of the size threshold follows an append.
C29_NoEmptyBatch ==
    /\ [](\A i \in 1..Len(written) : written[i] # <<>>)
    /\ [][\A w \in Workers :
            (pc[w] = "flush" /\ pc'[w] # "flush" /\ logBuffer = <<>>) =>
               /\ written' = written /\ logBuffer' = <<>> /\ logMux' = logMux
               /\ pc'[w] = After(w, ret[w])]_vars

\* The loop has returned through the shutdown flush, which found the
\* buffer empty: nothing was ever handed to the Writer.
C29_Witness ==
    /\ LoopTerminated
    /\ written = <<>>
    /\ rootDone

\* C30: with a batch size B >= 1 the buffer holds fewer than B entries
\* whenever its lock is free; a batch handed over by the size trigger has
\* exactly B entries, one handed over by the timer or the shutdown flush
\* between 1 and B - 1.
C30_BatchSizes ==
    /\ [](logMux = NoWorker => Len(logBuffer) < logBatchSize)
    /\ [][\A w \in Workers :
            (written' # written /\ pc'[w] # pc[w]) =>
               LET batch == written'[Len(written')]
               IN /\ pc[w] = "append" => Len(batch) = logBatchSize
                  /\ pc[w] = "flush" => Len(batch) \in 1..(logBatchSize - 1)]_vars

\* With a batch size of 2, one batch of two entries went out on the size
\* trigger and the buffer is empty again.
C30_Witness ==
    /\ logBatchSize = 2
    /\ Len(written) = 1 /\ Len(written[1]) = 2
    /\ logMux = NoWorker /\ logBuffer = <<>>

\* ---------------------------------------------------------------- C31
\* The step in which RemoveMessage(o) takes o out of the set and returns.
RemoveReturns(o) == muxOp = <<"remove", o>> /\ muxOp' = <<>>

\* The step in which request() takes its snapshot of the set.
TickBegins(w) == pc[w] = "select" /\ pc'[w] = "request"

\* The message whose last set operation was a RemoveMessage that returned.
Removed(o) == setObs[o][1] = "remove"

\* C31: RemoveMessage takes the message out of the polled set and nothing
\* else: its history, its index, the buffer and what was written stay as
\* they are.  A tick whose snapshot is taken after RemoveMessage returned
\* does not contain the message, so it is not requested.  In every history
\* the entry at position i carries Index i - 1, so a message added again
\* goes on with the index that follows its last entry.
C31_RemoveOnlyStopsPolling ==
    /\ [](\A o \in Objs :
            /\ index[o] = Len(history[o])
            /\ \A i \in 1..Len(history[o]) : history[o][i].Index = i - 1)
    /\ [][\A o \in Objs : RemoveReturns(o) =>
            /\ messages' = messages \ {o}
            /\ UNCHANGED <<history, index, logBuffer, written, produced>>]_vars
    /\ [][\A w \in Workers : TickBegins(w) =>
            /\ snap'[w] = messages
            /\ todo'[w] = messages
            /\ \A o \in Objs : Removed(o) => o \notin snap'[w]]_vars

\* A message polled once, removed, added again with that one entry in its
\* history, and polled again: the new entry carries Index 1.
C31_Witness ==
    \E o \in Objs :
        /\ setObs[o] = <<"add", 1, TRUE>>
        /\ o \in messages
        /\ Len(history[o]) = 2
        /\ history[o][2].Index = 1

\* ---------------------------------------------------------------- C32
\* The messages of the entries the current tick has recorded so far.
PolledObjs(w) == {polled[w][i].obj : i \in 1..Len(polled[w])}

\* request() has returned from a tick over a snapshot that was not empty.
TickOver(w) ==
    /\ snap[w] # {}
    /\ pc[w] \in {"select", "flush", "done"} \/ (pc[w] = "writing" /\ ret[w] # "next")

\* C32: a tick works on the snapshot taken at its start.  While it runs it
\* requests only messages of the snapshot and none of them twice; when it
\* is over it has requested every message of the snapshot exactly once,
\* also a message removed meanwhile, and no message added meanwhile.
C32_TickPollsItsSnapshot ==
    /\ [](\A w \in Workers :
            /\ PolledObjs(w) \subseteq snap[w]
            /\ Cardinality(PolledObjs(w)) = Len(polled[w])
            /\ TickOver(w) => PolledObjs(w) = snap[w])
    /\ [][\A o \in Objs : calls'[o] # calls[o] =>
            /\ calls'[o] = calls[o] + 1
            /\ \E w \in Workers :
                 /\ pc[w] = "request"
                 /\ o \in snap[w]
                 /\ o \notin PolledObjs(w)]_vars

\* A tick that is over, during which one message of its snapshot was
\* removed before its request was recorded and another message was added:
\* the first was requested, the second was not.
C32_Witness ==
    \E w \in Workers : \E o \in Objs : \E o2 \in Objs :
        /\ TickOver(w)
        /\ o \in snap[w] \ messages
        /\ setObs[o][1] = "remove"
        /\ \E i \in 1..Len(polled[w]) :
             polled[w][i].obj = o /\ polled[w][i].Index = setObs[o][2]
        /\ o2 \in messages \ snap[w]
        /\ setObs[o2][1] = "add"
        /\ o2 \notin PolledObjs(w)

\* ---------------------------------------------------------------- C33
\* The step in which the wait of a telemetry request records its result.
WaitEnds(w) == pc[w] = "mselect" /\ pc'[w] = "append"

\* The entry is the last one of its message's history.
IsLastOf(e, h) == Len(h) > 0 /\ h[Len(h)] = e

\* C33: a wait that ends with "request timeout" records a failed entry and
\* returns an error, which makes the error of the tick non-nil; a wait
\* that ends with "context cancelled" records a failed entry and returns
\* no error, which leaves the error of the tick as it was.  A tick over
\* one message whose entry is the cancelled one returns no error, a tick
\* whose entry is the timeout one returns an error.
C33_TimeoutErrsCancelDoesNot ==
    /\ [][\A w \in Workers : WaitEnds(w) =>
            LET e == entry'[w] IN
            /\ e.Error = ErrTimeout =>
                  /\ ~e.Success
                  /\ IsLastOf(e, history'[e.obj])
                  /\ tickErr'[w]
            /\ e.Error = ErrCancelled =>
                  /\ ~e.Success
                  /\ IsLastOf(e, history'[e.obj])
                  /\ tickErr'[w] = tickErr[w]]_vars
    /\ [](\A w \in Workers : (TickOver(w) /\ Len(polled[w]) = 1) =>
            /\ polled[w][1].Error = ErrTimeout => tickErr[w]
            /\ polled[w][1].Error = ErrCancelled => ~tickErr[w])

\* Two ticks over the telemetry message: the first ended with a timeout,
\* the second with a cancellation and has returned without an error.
C33_Witness ==
    \E w \in Workers :
        /\ TickOver(w)
        /\ Len(history["mav1"]) = 2
        /\ history["mav1"][1].Error = ErrTimeout
        /\ history["mav1"][2].Error = ErrCancelled
        /\ polled[w] = <<history["mav1"][2]>>
        /\ ~tickErr[w]

\* ---------------------------------------------------------------- C34
\* The locks a goroutine holds between two steps: the worker holds the
\* buffer lock while the writer writes and a message lock while add
\* appends; the client holds the set lock inside AddMessage or
\* RemoveMessage; the query holds the set lock inside getMessages.
HeldByWorker(w) ==
    (IF logMux = w THEN {"buffer"} ELSE {}) \cup
    {<<"message", o>> : o \in {x \in Objs : pc[w] = "adding" /\ entry[w].obj = x /\ adding[x] # <<>>}}

HeldByClient == IF muxOp # <<>> THEN {"set"} ELSE {}

HeldByQuery == IF qpc = "values" THEN {"set"} ELSE {}

\* C34: the lock of the set, the lock of the buffer and the lock of each
\* message are independent.  No goroutine holds two of them at once.
\* Whoever holds one can release it without any other lock, and whoever
\* asks for one gets it as soon as that very lock is free, whatever other
\* locks are held: so no interleaving deadlocks, and a query reads the
\* history of a message while an append to another message is going on.
C34_NoLockHeldAcross ==
    /\ \A w \in Workers : Cardinality(HeldByWorker(w)) <= 1
    /\ \A w \in Workers : HeldByWorker(w) # {} => pc[w] \in {"writing", "adding"}
    \* the holders
    /\ muxOp # <<>> => ENABLED SetEnd
    /\ qpc = "values" => ENABLED QueryValues
    /\ \A w \in Workers : logMux = w => ENABLED LoopWriteReturn(w)
    /\ \A w \in Workers : pc[w] = "adding" => ENABLED RequestUnlock(w)
    \* the askers
    /\ \A w \in Workers :
          (pc[w] = "request" /\ \E o \in Remaining(w) : adding[o] = <<>>)
             => ENABLED RequestLock(w)
    /\ \A w \in Workers : (pc[w] = "append" /\ logMux = NoWorker) => ENABLED LoopAppend(w)
    /\ \A w \in Workers : (pc[w] = "flush" /\ logMux = NoWorker) => ENABLED LoopFlush(w)
    /\ \A o \in Dynamic :
          (muxOp = <<>> /\ qpc # "values") => ENABLED SetBegin("add", o) /\ ENABLED SetBegin("remove", o)
    /\ (qpc = "idle" /\ muxOp = <<>>) => ENABLED QueryStart(GetType("at1"))
    /\ \A o \in Objs :
          (qpc = "scan" /\ o \in qtodo /\ adding[o] = <<>>) => ENABLED QueryScanOf(o)

\* The three kinds of lock in use at once, each by another goroutine: the
\* client is inside AddMessage or RemoveMessage, the worker appends to the
\* history of one message, and the query is about to read the history of
\* another message.
C34_Witness ==
    \E o \in Objs : \E o2 \in Objs \ {o} :
        /\ muxOp # <<>>
        /\ adding[o] # <<>>
        /\ qpc = "scan"
        /\ o2 \in qtodo
        /\ GetType(o2) = qtype
        /\ ENABLED QueryScanOf(o2)

\* ---------------------------------------------------------------- C35
\* The step in which a call of Close returns to its caller.
CloseReturns(c) == cpc[c] # "returned" /\ cpc'[c] = "returned"

\* The loop is inside request() or inside a flush.
Busy(w) == pc[w] \in {"request", "mselect", "append", "flush", "writing"}

\* C35: Close does not return while a request or a flush of the loop is
\* in progress, whether Close is called before Start, while the loop is
\* idle, during a request tick or during a flush.
C35_CloseWaitsForLoop ==
    [][\A c \in Closers : CloseReturns(c) => \A w \in Workers : ~Busy(w)]_vars

\* The evaluation of the loop's select that takes case <-p.ctx.Done().
LoopExit(w) == LoopSelect(w) /\ ret'[w] = "exit"

NextShutdown ==
    \/ Start
    \/ Worker
    \/ Closing
    \/ \E w \in Workers : TimeoutFire(w)

\* The processor with both backends in place, Start and Close called at
\* any time and in any order.  Every backend request returns (the command
\* returns, the request timer elapses), Write and Close of the writer
\* return, and a select that finds ctx.Done() ready at every evaluation
\* ends up taking it.
SpecShutdown ==
    /\ InitStats
    /\ [][NextShutdown]_vars
    /\ \A w \in Workers :
          /\ WF_vars(TimeoutFire(w)) /\ WF_vars(MavExpire(w))
          /\ WF_vars(LoopRequest(w)) /\ WF_vars(LoopAppend(w))
          /\ WF_vars(LoopFlush(w)) /\ WF_vars(LoopWriteReturn(w))
          /\ SF_vars(LoopExit(w))
    /\ \A c \in Closers : WF_vars(CloseWriter(c)) /\ WF_vars(CloseReturn(c))

\* The part of C35 about termination: once Close has been called the loop
\* is not running in the end, and every call of Close returns.
ShutdownTerminates ==
    /\ (once # "new") ~> (\A w \in Workers : pc[w] \in {"idle", "done"})
    /\ \A c \in Closers : (cpc[c] # "idle") ~> (cpc[c] = "returned")

\* Start called only before the first call of Close.
StartEarly == once = "new" /\ Start

NextOrderly == StartEarly \/ Environment \/ Worker \/ Closing

\* The processor whose loop is never started after Close: under this
\* specification C35_CloseWaitsForLoop holds.
SpecOrderly == Init /\ [][NextOrderly]_vars

====
